---- MODULE Spec2Model ----
(***************************************************************************)
(* Model of src/app.py: the Streamlit script that loads ktx.csv (cached),  *)
(* reads the station / date controls, filters the table and renders nine   *)
(* views.  One run of main() is a sequence of steps (pc); a rerun starts   *)
(* main() again with the cache kept.                                       *)
(*                                                                         *)
(* Column names (source -> model):                                         *)
(*   운행년월 -> period          정차역 -> station                          *)
(*   하행_승차인원수 -> boarding_down   하행_하차인원수 -> alighting_down   *)
(*   상행_승차인원수 -> boarding_up     상행_하차인원수 -> alighting_up     *)
(*   총_승차인원수 -> total_boarding    월 -> month                         *)
(*   하행_승하차차이 -> down_diff       상행_승하차차이 -> up_diff          *)
(*   방향 -> direction                  승하차차이 -> diff_value            *)
(* Station names are numbered in their sorted (lexicographic) order, so    *)
(* the order of the numbers is the order of the names.  Dates are day      *)
(* numbers; a calendar month has DaysPerMonth days.                        *)
(***************************************************************************)
EXTENDS Integers, Sequences, FiniteSets, TLC

\* ---------------------------------------------------------------- bounds
NumStations == 2
TopStations == 6
MaxDate == 2
DaysPerMonth == 2
MaxCount == 1
MaxRows == 2
RerunRows == 1
MaxLoads == 2

\* nlargest(5)
TopN == 5

Stations == 1..NumStations
Dates == 0..MaxDate
Counts == 0..MaxCount

BaseColumns ==
  {"period", "station", "boarding_down", "alighting_down", "boarding_up", "alighting_up"}

\* ---------------------------------------------------------------- helpers
RECURSIVE SumSeq(_)
SumSeq(s) == IF s = <<>> THEN 0 ELSE Head(s) + SumSeq(Tail(s))

Col(rows, c) == [i \in 1..Len(rows) |-> rows[i][c]]

SetMin(S) == CHOOSE x \in S : \A y \in S : x <= y

RECURSIVE SortedSeq(_)
SortedSeq(S) == IF S = {} THEN <<>> ELSE <<SetMin(S)>> \o SortedSeq(S \ {SetMin(S)})

\* pandas: the mean of a group, kept exact as <<sum, count>>
Mean(s) == <<SumSeq(s), Len(s)>>

\* Series.round(0).astype(int): round half to even
RoundInt(m) ==
  LET q == m[1] \div m[2]
      r == m[1] % m[2]
  IN  IF 2 * r < m[2] THEN q
      ELSE IF 2 * r > m[2] THEN q + 1
      ELSE IF q % 2 = 0 THEN q ELSE q + 1

\* pd.DataFrame()
EmptyFrame == [columns |-> {}, rows |-> <<>>]

\* DataFrame.empty
IsEmpty(t) == t.columns = {} \/ t.rows = <<>>

\* df['정차역'].unique()
Unique(rows) == {rows[i].station : i \in 1..Len(rows)}

\* dt.strftime('%Y-%m')
Strftime(d) == d \div DaysPerMonth

\* ---------------------------------------------------------------- input files
RowSet(S) ==
  {r \in [period : Dates, station : S, boarding_down : Counts, alighting_down : Counts,
          boarding_up : Counts, alighting_up : Counts] :
     r.boarding_down + r.alighting_down + r.boarding_up + r.alighting_up <= MaxCount}

SeqsUpTo(S, n) == UNION {[1..k -> S] : k \in 0..n}

CsvFile(rows) == [kind |-> "csv", rows |-> rows]
MissingFile == [kind |-> "missing", rows |-> <<>>]
UndecodableFile == [kind |-> "undecodable", rows |-> <<>>]

Files == {MissingFile, UndecodableFile} \cup {CsvFile(t) : t \in SeqsUpTo(RowSet(Stations), MaxRows)}

RerunFiles == {MissingFile, UndecodableFile} \cup {CsvFile(t) : t \in SeqsUpTo(RowSet(Stations), RerunRows)}

TopRow(s, n) ==
  [period |-> 0, station |-> s, boarding_down |-> n, alighting_down |-> 0,
   boarding_up |-> 0, alighting_up |-> 0]

\* one row per station, then possibly one more row for the first or the last station
TopFiles ==
  {CsvFile([i \in 1..TopStations |-> TopRow(i, f[i])] \o x) :
     f \in [1..TopStations -> Counts],
     x \in {<<>>, <<TopRow(1, MaxCount)>>, <<TopRow(TopStations, MaxCount)>>}}

\* ---------------------------------------------------------------- state
VARIABLES
  file,               \* ktx.csv on disk
  cache,              \* st.cache_data entry of load_data
  loads,              \* how many times load_data's body ran
  pc,                 \* position of main()
  halt,               \* why main() stopped: "none", "load", "InvalidDateRange", "EmptyResult"
  df,                 \* main's df
  selected_stations, start_date, end_date,
  filtered_df,
  messages,           \* st.title / st.error / st.warning of this run, in order
  views,              \* the tables handed to the renderer in this run
  seen,               \* seen[i]: filtered_df as view i read it
  tracking,           \* whether earlier runs are remembered in memo
  memo                \* criteria and outcome of an earlier run

vars == <<file, cache, loads, pc, halt, df, selected_stations, start_date, end_date,
          filtered_df, messages, views, seen, tracking, memo>>

Title == [level |-> "title", text |-> "KTX"]
EncodingError == [level |-> "error", text |-> "encoding"]
FileNotFoundMsg == [level |-> "error", text |-> "file not found"]
DefaultsWarning == [level |-> "warning", text |-> "default stations missing"]
DateRangeError == [level |-> "error", text |-> "start after end"]
EmptyResultWarning == [level |-> "warning", text |-> "no data"]

NoViews ==
  [time_series |-> <<>>, avg_data |-> <<>>, total_data |-> <<>>, pie |-> <<>>,
   heatmap_data |-> <<>>, scatter |-> <<>>, table |-> EmptyFrame,
   total_passengers |-> <<>>, monthly_avg |-> <<>>, diff_long |-> <<>>,
   top_5_stations |-> <<>>, top_5_data |-> EmptyFrame]

NoMemo == [set |-> FALSE, stations |-> {}, from |-> 0, to |-> 0, outcome |-> <<>>]

InitWith(F, t) ==
  /\ file \in F
  /\ cache = [present |-> FALSE, value |-> EmptyFrame, msgs |-> <<>>]
  /\ loads = 0
  /\ pc = "load"
  /\ halt = "none"
  /\ df = EmptyFrame
  /\ selected_stations = {}
  /\ start_date = 0
  /\ end_date = 0
  /\ filtered_df = EmptyFrame
  /\ messages = <<>>
  /\ views = NoViews
  /\ seen = <<>>
  /\ tracking = t
  /\ memo = NoMemo

Init == InitWith(Files, FALSE)
InitTop == InitWith(TopFiles, FALSE)
InitRerun == InitWith(RerunFiles, TRUE)

\* ---------------------------------------------------------------- load_data
\* pd.read_csv('ktx.csv', encoding=enc); legacy: the bytes are not valid euc-kr
read_csv(f, enc, legacy) ==
  IF f.kind = "missing" THEN [err |-> "FileNotFoundError", rows |-> <<>>]
  ELSE IF f.kind = "undecodable" \/ (enc = "euc-kr" /\ legacy)
       THEN [err |-> "UnicodeDecodeError", rows |-> <<>>]
       ELSE [err |-> "none", rows |-> f.rows]

\* df['운행년월'] = pd.to_datetime(df['운행년월']); return df
Loaded(rows) == [value |-> [columns |-> BaseColumns, rows |-> rows], msgs |-> <<>>]

load_data_body(f, legacy) ==
  LET r1 == read_csv(f, "euc-kr", legacy)
      r2 == read_csv(f, "cp949", legacy)
  IN  IF r1.err = "UnicodeDecodeError"
      THEN IF r2.err = "UnicodeDecodeError"
           THEN [value |-> EmptyFrame, msgs |-> <<EncodingError>>]
           ELSE Loaded(r2.rows)
      ELSE IF r1.err = "FileNotFoundError"
           THEN [value |-> EmptyFrame, msgs |-> <<FileNotFoundMsg>>]
           ELSE Loaded(r1.rows)

\* @st.cache_data: what the entry is after a call that ran the body
CacheNever(c, r) == c
CacheStore(c, r) == [present |-> TRUE, value |-> r.value, msgs |-> r.msgs]

\* st.title; df = load_data(); if df.empty: st.stop()
LoadGate(t) == IsEmpty(t)

LoadData ==
  /\ pc = "load"
  /\ \/ /\ cache.present
        /\ df' = cache.value
        /\ messages' = <<Title>> \o cache.msgs
        /\ UNCHANGED <<cache, loads>>
     \/ /\ ~cache.present
        /\ loads < MaxLoads
        /\ \E legacy \in BOOLEAN :
             LET r == load_data_body(file, legacy)
             IN  /\ df' = r.value
                 /\ messages' = <<Title>> \o r.msgs
                 /\ cache' = CacheStore(cache, r)
        /\ loads' = loads + 1
  /\ IF LoadGate(df')
     THEN pc' = "stopped" /\ halt' = "load"
     ELSE pc' = "controls" /\ halt' = "none"
  /\ UNCHANGED <<file, selected_stations, start_date, end_date, filtered_df, views, seen,
                 tracking, memo>>

\* ---------------------------------------------------------------- controls
PreferredStations == {1, 2, 3, 4, 5}

\* lines 32-48: the widgets are the input provider; what they return is the user's
\* choice.  min_value / max_value are given to the widget, the check of line 50 is
\* the program's own.
ReadControls ==
  /\ pc = "controls"
  /\ LET all_stations == Unique(df.rows)
         default_stations == PreferredStations \cap all_stations
     IN  /\ messages' = IF Cardinality(default_stations) < 5
                        THEN Append(messages, DefaultsWarning) ELSE messages
         /\ selected_stations' \in SUBSET all_stations
  /\ start_date' \in Dates
  /\ end_date' \in Dates
  /\ pc' = "daterange"
  /\ UNCHANGED <<file, cache, loads, halt, df, filtered_df, views, seen, tracking, memo>>

\* if start_date > end_date: st.error(...); st.stop()
DateGateLax(s, e) == FALSE
DateGate(s, e) == s > e

CheckDateRange ==
  /\ pc = "daterange"
  /\ IF DateGate(start_date, end_date)
     THEN /\ messages' = Append(messages, DateRangeError)
          /\ pc' = "stopped"
          /\ halt' = "InvalidDateRange"
     ELSE /\ pc' = "filter"
          /\ UNCHANGED <<messages, halt>>
  /\ UNCHANGED <<file, cache, loads, df, selected_stations, start_date, end_date,
                 filtered_df, views, seen, tracking, memo>>

\* ---------------------------------------------------------------- filter
\* (df['정차역'].isin(sel)) & (df['운행년월'].dt.date >= s) & (df['운행년월'].dt.date <= e)
MaskStrict(rows, sel, s, e) ==
  [i \in 1..Len(rows) |->
     rows[i].station \in sel /\ rows[i].period >= s /\ rows[i].period < e]
Mask(rows, sel, s, e) ==
  [i \in 1..Len(rows) |->
     rows[i].station \in sel /\ rows[i].period >= s /\ rows[i].period <= e]

\* df[mask]: the rows whose mask is True, in order
RECURSIVE BoolIndex(_, _, _)
BoolIndex(rows, mask, i) ==
  IF i > Len(rows) THEN <<>>
  ELSE (IF mask[i] THEN <<rows[i]>> ELSE <<>>) \o BoolIndex(rows, mask, i + 1)

\* if filtered_df.empty: st.warning(...); st.stop()
EmptyGateLax(t) == FALSE
EmptyGate(t) == IsEmpty(t)

Filter ==
  /\ pc = "filter"
  /\ filtered_df' =
       [columns |-> df.columns,
        rows |-> BoolIndex(df.rows, Mask(df.rows, selected_stations, start_date, end_date), 1)]
  /\ IF EmptyGate(filtered_df')
     THEN /\ messages' = Append(messages, EmptyResultWarning)
          /\ pc' = "stopped"
          /\ halt' = "EmptyResult"
     ELSE /\ pc' = "view1"
          /\ UNCHANGED <<messages, halt>>
  /\ UNCHANGED <<file, cache, loads, df, selected_stations, start_date, end_date, views,
                 seen, tracking, memo>>

\* ---------------------------------------------------------------- pandas helpers
\* filtered_df[filtered_df['정차역'] == station]; also the rows of one groupby('정차역') group
StationRows(rows, s) == SelectSeq(rows, LAMBDA r : r.station = s)

\* t[name] = vals: the table with the column set to the values, row by row
AssignColumn(t, name, vals) ==
  [columns |-> t.columns \cup {name},
   rows |-> [i \in 1..Len(t.rows) |-> (name :> vals[i]) @@ t.rows[i]]]

\* DataFrame.copy()
Copy(t) == t

NaN == <<0, 0>>
IsNaN(q) == q[2] = 0

\* ---------------------------------------------------------------- views 1-3
\* for station in selected_stations: station_data = filtered_df[filtered_df['정차역'] == station]
TimeSeries(t, sel) == [s \in sel |-> StationRows(t.rows, s)]

\* filtered_df.groupby('정차역')[[4 columns]].mean().reset_index()
GroupMean(t) ==
  [s \in Unique(t.rows) |->
     [c \in BaseColumns \ {"period", "station"} |-> Mean(Col(StationRows(t.rows, s), c))]]

\* filtered_df.groupby('정차역')[[4 columns]].sum().reset_index()
GroupSum(t) ==
  [s \in Unique(t.rows) |->
     [c \in BaseColumns \ {"period", "station"} |-> SumSeq(Col(StationRows(t.rows, s), c))]]

\* groupby('정차역')[['하행_승차인원수','상행_승차인원수']].sum(); total_data['총_승차인원수'] = ...
TotalData(t) ==
  [s \in Unique(t.rows) |->
     LET d == SumSeq(Col(StationRows(t.rows, s), "boarding_down"))
         u == SumSeq(Col(StationRows(t.rows, s), "boarding_up"))
     IN  [boarding_down |-> d, boarding_up |-> u, total_boarding |-> d + u]]

RECURSIVE SumOver(_, _)
SumOver(f, S) ==
  IF S = {} THEN 0 ELSE LET x == CHOOSE y \in S : TRUE IN f[x] + SumOver(f, S \ {x})

\* px.pie(total_data, values='총_승차인원수', names='정차역'): each slice is its value over
\* the sum of the values; the code passes the totals as they are, so that 0 / 0 is
\* what it is for an all-zero column
Pie(td) ==
  LET tot == SumOver([s \in DOMAIN td |-> td[s].total_boarding], DOMAIN td)
  IN  [s \in DOMAIN td |-> <<td[s].total_boarding, tot>>]

View1 ==
  /\ pc = "view1"
  /\ views' = [views EXCEPT !.time_series = TimeSeries(filtered_df, selected_stations)]
  /\ seen' = Append(seen, filtered_df)
  /\ pc' = "view2"
  /\ UNCHANGED <<file, cache, loads, halt, df, selected_stations, start_date, end_date,
                 filtered_df, messages, tracking, memo>>

View2 ==
  /\ pc = "view2"
  /\ views' = [views EXCEPT !.avg_data = GroupMean(filtered_df)]
  /\ seen' = Append(seen, filtered_df)
  /\ pc' = "view3"
  /\ UNCHANGED <<file, cache, loads, halt, df, selected_stations, start_date, end_date,
                 filtered_df, messages, tracking, memo>>

View3 ==
  /\ pc = "view3"
  /\ LET total_data == TotalData(filtered_df)
     IN  views' = [views EXCEPT !.total_data = total_data, !.pie = Pie(total_data)]
  /\ seen' = Append(seen, filtered_df)
  /\ pc' = "view4"
  /\ UNCHANGED <<file, cache, loads, halt, df, selected_stations, start_date, end_date,
                 filtered_df, messages, tracking, memo>>

\* ---------------------------------------------------------------- view 4
MonthOf(r) == Strftime(r.period)
TotalBoardingOf(r) == r.boarding_down + r.boarding_up

\* groupby(['월', '정차역'])['총_승차인원수'].mean(): one entry per pair that has rows
GroupMean2(rows) ==
  LET keys == {<<rows[i].month, rows[i].station>> : i \in 1..Len(rows)}
  IN  [k \in keys |->
         Mean(Col(SelectSeq(rows, LAMBDA r : r.month = k[1] /\ r.station = k[2]),
                  "total_boarding"))]

\* .unstack(): index = the months of the keys, columns = the stations of the keys,
\* a pair that is no key is NaN
UnstackZero(g) ==
  LET index == {k[1] : k \in DOMAIN g}
      columns == {k[2] : k \in DOMAIN g}
  IN  [index |-> index, columns |-> columns,
       cell |-> [k \in index \X columns |-> IF k \in DOMAIN g THEN g[k] ELSE <<0, 1>>]]
Unstack(g) ==
  LET index == {k[1] : k \in DOMAIN g}
      columns == {k[2] : k \in DOMAIN g}
  IN  [index |-> index, columns |-> columns,
       cell |-> [k \in index \X columns |-> IF k \in DOMAIN g THEN g[k] ELSE NaN]]

View4 ==
  /\ pc = "view4"
  /\ LET h0 == Copy(filtered_df)
         h1 == AssignColumn(h0, "month", [i \in 1..Len(h0.rows) |-> MonthOf(h0.rows[i])])
         h2 == AssignColumn(h1, "total_boarding",
                            [i \in 1..Len(h1.rows) |-> TotalBoardingOf(h1.rows[i])])
     IN  views' = [views EXCEPT !.heatmap_data = Unstack(GroupMean2(h2.rows))]
  /\ seen' = Append(seen, filtered_df)
  /\ pc' = "view5"
  /\ UNCHANGED <<file, cache, loads, halt, df, selected_stations, start_date, end_date,
                 filtered_df, messages, tracking, memo>>

\* ---------------------------------------------------------------- views 5-7
\* px.scatter(filtered_df, x='하행_승차인원수', y='상행_승차인원수', color='정차역')
Scatter(t) ==
  [i \in 1..Len(t.rows) |->
     [x |-> t.rows[i].boarding_down, y |-> t.rows[i].boarding_up, color |-> t.rows[i].station]]

View5 ==
  /\ pc = "view5"
  /\ views' = [views EXCEPT !.scatter = Scatter(filtered_df)]
  /\ seen' = Append(seen, filtered_df)
  /\ pc' = "view6"
  /\ UNCHANGED <<file, cache, loads, halt, df, selected_stations, start_date, end_date,
                 filtered_df, messages, tracking, memo>>

\* st.dataframe(filtered_df)
View6 ==
  /\ pc = "view6"
  /\ views' = [views EXCEPT !.table = filtered_df]
  /\ seen' = Append(seen, filtered_df)
  /\ pc' = "view7"
  /\ UNCHANGED <<file, cache, loads, halt, df, selected_stations, start_date, end_date,
                 filtered_df, messages, tracking, memo>>

\* total_passengers / monthly_avg: .round(0).astype(int)
RoundAll(g) == [s \in DOMAIN g |-> [c \in DOMAIN g[s] |-> RoundInt(g[s][c])]]

View7 ==
  /\ pc = "view7"
  /\ views' = [views EXCEPT !.total_passengers = GroupSum(filtered_df),
                            !.monthly_avg = RoundAll(GroupMean(filtered_df))]
  /\ seen' = Append(seen, filtered_df)
  /\ pc' = "view8"
  /\ UNCHANGED <<file, cache, loads, halt, df, selected_stations, start_date, end_date,
                 filtered_df, messages, tracking, memo>>

\* ---------------------------------------------------------------- view 8
DownSum(r) == r.boarding_down + r.alighting_down
DownDiff(r) == r.boarding_down - r.alighting_down
UpDiff(r) == r.boarding_up - r.alighting_up

\* filtered_df.melt(id_vars=['정차역'], value_vars=[...], var_name='방향', value_name='승하차차이'):
\* for each value column in turn, one row per row of the table
RECURSIVE Melt(_, _)
Melt(rows, value_vars) ==
  IF value_vars = <<>> THEN <<>>
  ELSE [i \in 1..Len(rows) |->
          [station |-> rows[i].station, direction |-> Head(value_vars),
           diff_value |-> rows[i][Head(value_vars)]]]
       \o Melt(rows, Tail(value_vars))

\* lines 130-131 assign the two columns to filtered_df itself
View8 ==
  /\ pc = "view8"
  /\ LET f0 == filtered_df
         f1 == AssignColumn(f0, "down_diff", [i \in 1..Len(f0.rows) |-> DownDiff(f0.rows[i])])
         f2 == AssignColumn(f1, "up_diff", [i \in 1..Len(f1.rows) |-> UpDiff(f1.rows[i])])
     IN  /\ filtered_df' = f2
         /\ views' = [views EXCEPT !.diff_long = Melt(f2.rows, <<"down_diff", "up_diff">>)]
  /\ seen' = Append(seen, filtered_df)
  /\ pc' = "view9"
  /\ UNCHANGED <<file, cache, loads, halt, df, selected_stations, start_date, end_date,
                 messages, tracking, memo>>

\* ---------------------------------------------------------------- view 9
Reverse(s) == [i \in 1..Len(s) |-> s[Len(s) + 1 - i]]

\* insertion into a sequence of positions sorted by key; an equal key goes after
RECURSIVE InsertFirst(_, _, _)
InsertFirst(sorted, i, key) ==
  IF sorted = <<>> THEN <<i>>
  ELSE IF key[Head(sorted)] < key[i]
       THEN <<Head(sorted)>> \o InsertFirst(Tail(sorted), i, key)
       ELSE <<i>> \o sorted
RECURSIVE InsertStable(_, _, _)
InsertStable(sorted, i, key) ==
  IF sorted = <<>> THEN <<i>>
  ELSE IF key[Head(sorted)] <= key[i]
       THEN <<Head(sorted)>> \o InsertStable(Tail(sorted), i, key)
       ELSE <<i>> \o sorted

\* argsort(kind="mergesort") of the positions idx by key
RECURSIVE StableArgsort(_, _)
StableArgsort(idx, key) ==
  IF idx = <<>> THEN <<>>
  ELSE InsertStable(StableArgsort(SubSeq(idx, 1, Len(idx) - 1), key), idx[Len(idx)], key)

\* Series.sort_values(ascending=False): nargsort reverses, sorts, reverses
SortValuesDesc(vals) ==
  LET idx == [i \in 1..Len(vals) |-> i]
  IN  Reverse(StableArgsort(Reverse(idx), vals))

\* algos.kth_smallest(arr, k - 1)
KthSmallest(arr, k) ==
  LET idx == [i \in 1..Len(arr) |-> i]
  IN  arr[StableArgsort(idx, arr)[k]]

Head_n(s, n) == SubSeq(s, 1, IF n < Len(s) THEN n ELSE Len(s))

\* Series.nlargest(n) (keep='first'): the positions of the result, in its order
NLargest(vals, n) ==
  IF n >= Len(vals) THEN Head_n(SortValuesDesc(vals), n)
  ELSE LET arr == [i \in 1..Len(vals) |-> 0 - vals[i]]
           kth_val == KthSmallest(arr, n)
           ns == SelectSeq([i \in 1..Len(vals) |-> i], LAMBDA i : arr[i] <= kth_val)
       IN  Head_n(StableArgsort(ns, arr), n)

\* filtered_df.groupby('정차역')['하행_승차인원수'].sum().nlargest(5).index
Top5Stations(t) ==
  LET keys == SortedSeq(Unique(t.rows))
      vals == [i \in 1..Len(keys) |-> SumSeq(Col(StationRows(t.rows, keys[i]), "boarding_down"))]
      top == NLargest(vals, TopN)
  IN  [i \in 1..Len(top) |-> keys[top[i]]]

Range(s) == {s[i] : i \in 1..Len(s)}

\* filtered_df[filtered_df['정차역'].isin(top_5_stations)]
View9 ==
  /\ pc = "view9"
  /\ LET top_5_stations == Top5Stations(filtered_df)
         mask == [i \in 1..Len(filtered_df.rows) |->
                    filtered_df.rows[i].station \in Range(top_5_stations)]
     IN  views' = [views EXCEPT
                     !.top_5_stations = top_5_stations,
                     !.top_5_data = [columns |-> filtered_df.columns,
                                     rows |-> BoolIndex(filtered_df.rows, mask, 1)]]
  /\ seen' = Append(seen, filtered_df)
  /\ pc' = "done"
  /\ UNCHANGED <<file, cache, loads, halt, df, selected_stations, start_date, end_date,
                 filtered_df, messages, tracking, memo>>

\* ---------------------------------------------------------------- rerun
Outcome == [halt |-> halt, messages |-> messages, views |-> views]

Snapshot ==
  [set |-> TRUE, stations |-> selected_stations, from |-> start_date, to |-> end_date,
   outcome |-> Outcome]

\* a filter-change: Streamlit runs main() again from the top; the cache stays
Rerun ==
  /\ pc \in {"done", "stopped"}
  /\ pc' = "load"
  /\ halt' = "none"
  /\ df' = EmptyFrame
  /\ selected_stations' = {}
  /\ start_date' = 0
  /\ end_date' = 0
  /\ filtered_df' = EmptyFrame
  /\ messages' = <<>>
  /\ views' = NoViews
  /\ seen' = <<>>
  /\ memo' \in IF tracking THEN {memo, Snapshot} ELSE {memo}
  /\ UNCHANGED <<file, cache, loads, tracking>>

Next ==
  \/ LoadData
  \/ ReadControls
  \/ CheckDateRange
  \/ Filter
  \/ View1 \/ View2 \/ View3 \/ View4 \/ View5 \/ View6 \/ View7 \/ View8 \/ View9
  \/ Rerun

Spec == Init /\ [][Next]_vars
SpecTop == InitTop /\ [][Next]_vars
SpecRerun == InitRerun /\ [][Next]_vars

\* ================================================================ properties
ViewPcs == {"view1", "view2", "view3", "view4", "view5", "view6", "view7", "view8", "view9"}

\* the rows of the loaded table that satisfy the station and date predicates, in order
Matching(rows, sel, s, e) ==
  SelectSeq(rows, LAMBDA r : r.station \in sel /\ s <= r.period /\ r.period <= e)

HasError(msgs) == \E i \in 1..Len(msgs) : msgs[i].level = "error"
ErrorCount(msgs) == Cardinality({i \in 1..Len(msgs) : msgs[i].level = "error"})

\* C1: once the filter has run on a valid interval, filtered_df is exactly the
\* subsequence of df's rows whose station is selected and whose period lies in
\* [start_date, end_date], both ends included, in the original order.
C1_FilterMembership ==
  (halt = "EmptyResult" \/ pc \in ViewPcs \ {"view9"}) =>
     /\ start_date <= end_date
     /\ filtered_df.rows = Matching(df.rows, selected_stations, start_date, end_date)
     /\ filtered_df.columns = df.columns

\* a row on the last day of the interval is kept while another row is dropped
C1_Witness ==
  /\ pc = "view1"
  /\ Len(df.rows) = 2
  /\ Len(filtered_df.rows) = 1
  /\ filtered_df.rows[1] = df.rows[2]
  /\ filtered_df.rows[1].period = end_date
  /\ df.rows[1].station \in selected_stations

\* C2: a run whose start date is later than its end date ends with the date-range
\* error and a stop, whatever the selection; nothing is filtered or rendered.
C2_InvalidDateRange ==
  (pc \notin {"load", "controls", "daterange"} /\ start_date > end_date) =>
     /\ pc = "stopped"
     /\ halt = "InvalidDateRange"
     /\ messages[Len(messages)] = DateRangeError
     /\ filtered_df = EmptyFrame
     /\ views = NoViews
     /\ seen = <<>>

C2_Witness ==
  /\ halt = "InvalidDateRange"
  /\ selected_stations = {}
  /\ start_date > end_date

\* C3: a valid interval with no matching row halts with the empty-result warning,
\* which is not the date-range error, before any view; every view that runs reads a
\* filtered table with at least one row.
C3_EmptyResult ==
  /\ (pc \notin {"load", "controls", "daterange", "filter"} /\ start_date <= end_date
        /\ Matching(df.rows, selected_stations, start_date, end_date) = <<>>)
       => /\ pc = "stopped"
          /\ halt \in {"EmptyResult", "load"}
  /\ halt = "EmptyResult" =>
       /\ pc = "stopped"
       /\ messages[Len(messages)] = EmptyResultWarning
       /\ EmptyResultWarning # DateRangeError
       /\ ~HasError(messages)
       /\ views = NoViews
       /\ seen = <<>>
  /\ pc \in ViewPcs => filtered_df.rows # <<>>
  /\ \A i \in 1..Len(seen) : seen[i].rows # <<>>

\* the selection is not empty, yet no row lies in the interval
C3_Witness ==
  /\ halt = "EmptyResult"
  /\ selected_stations = Unique(df.rows)
  /\ start_date <= end_date

\* C4: a missing or undecodable file gives exactly one error message and a stop
\* before the controls and the views; and every stop at the load gate comes with a
\* load error message.
C4_LoadFailureReported ==
  /\ (file.kind \in {"missing", "undecodable"} /\ pc # "load") =>
       /\ pc = "stopped"
       /\ halt = "load"
       /\ ErrorCount(messages) = 1
       /\ selected_stations = {}
       /\ views = NoViews
  /\ halt = "load" => HasError(messages)

\* C5: the shares have one entry per station of the filtered table, sum to 1 when
\* some total is not 0, and are all 0 (no undefined quotient) when every total is 0.
C5_StationShares ==
  pc \in {"view4", "view5", "view6", "view7", "view8", "view9", "done"} =>
     LET pie == views.pie
         tot == SumOver([s \in DOMAIN pie |-> pie[s][1]], DOMAIN pie)
     IN  /\ DOMAIN pie = Unique(filtered_df.rows)
         /\ \A s \in DOMAIN pie : ~IsNaN(pie[s])
         /\ \A s \in DOMAIN pie :
              pie[s][1] = SumSeq([i \in 1..Len(seen[3].rows) |->
                                    IF seen[3].rows[i].station = s
                                    THEN seen[3].rows[i].boarding_down
                                         + seen[3].rows[i].boarding_up
                                    ELSE 0])
         /\ tot # 0 => \A s \in DOMAIN pie : pie[s][2] = tot
         /\ tot = 0 => \A s \in DOMAIN pie : pie[s][1] = 0 /\ pie[s][2] # 0

\* the sum of one column over the rows of station s
StationSum(rows, s, c) ==
  SumOver([i \in 1..Len(rows) |-> rows[i][c]], {i \in 1..Len(rows) : rows[i].station = s})

\* station a ranks before station b: larger down-boarding sum, or equal sum and
\* smaller name
RanksBefore(rows, a, b) ==
  \/ StationSum(rows, a, "boarding_down") > StationSum(rows, b, "boarding_down")
  \/ /\ StationSum(rows, a, "boarding_down") = StationSum(rows, b, "boarding_down")
     /\ a < b

HeatCell(rows, m, s) ==
  LET idx == {i \in 1..Len(rows) : Strftime(rows[i].period) = m /\ rows[i].station = s}
  IN  IF idx = {} THEN NaN
      ELSE <<SumOver([i \in 1..Len(rows) |-> rows[i].boarding_down + rows[i].boarding_up], idx),
             Cardinality(idx)>>

HeatRowsAndCells ==
  LET h == views.heatmap_data
      rows == seen[4].rows
  IN  /\ h.index = {Strftime(rows[i].period) : i \in 1..Len(rows)}
      /\ DOMAIN h.cell = h.index \X h.columns
      /\ \A k \in DOMAIN h.cell : h.cell[k] = HeatCell(rows, k[1], k[2])

\* C7 as stated: one row per year-month of the filtered data, one column per
\* selected station, each cell the mean of the pair's total boardings or the
\* no-data marker.
C7_HeatSelectedColumns ==
  pc \in {"view5", "view6", "view7", "view8", "view9", "done"} =>
     /\ HeatRowsAndCells
     /\ views.heatmap_data.columns = selected_stations

\* C7 amended: the columns are the stations that occur in the filtered data; a
\* selected station with no row inside the interval has no column.
C7_HeatPresentColumns ==
  pc \in {"view5", "view6", "view7", "view8", "view9", "done"} =>
     /\ HeatRowsAndCells
     /\ views.heatmap_data.columns = Unique(seen[4].rows)
     /\ views.heatmap_data.columns \subseteq selected_stations

\* a selected station of the loaded table has no row inside the interval, so the
\* matrix has a column for the other station only
C7_Witness ==
  /\ pc = "view5"
  /\ selected_stations = {1, 2}
  /\ views.heatmap_data.columns = {1}
  /\ views.heatmap_data.cell[<<Strftime(start_date), 1>>] = <<1, 1>>

\* C8: the long table of view 8 has two rows per filtered row: first the down
\* differences boarding_down - alighting_down of the rows in order, then the up
\* differences boarding_up - alighting_up, each with the row's station.
C8_Differential ==
  pc \in {"view9", "done"} =>
     LET rows == seen[8].rows
         k == Len(rows)
         long == views.diff_long
     IN  /\ Len(long) = 2 * k
         /\ \A i \in 1..k :
              /\ long[i] = [station |-> rows[i].station, direction |-> "down_diff",
                            diff_value |-> rows[i].boarding_down - rows[i].alighting_down]
              /\ long[k + i] = [station |-> rows[i].station, direction |-> "up_diff",
                                diff_value |-> rows[i].boarding_up - rows[i].alighting_up]

\* two filtered rows, one of them with a negative difference
C8_Witness ==
  /\ pc = "done"
  /\ Len(views.diff_long) = 4
  /\ views.diff_long[1].diff_value = 0 - 1
  /\ views.diff_long[4].diff_value = 1

\* C9: the loaded table is what the cache holds throughout the run, and the
\* filtered table is the same for view 9 as it was for view 1.
C9_NoSharedMutation ==
  /\ pc \notin {"load", "stopped"} => df = cache.value
  /\ \A i \in 1..Len(seen) : seen[i] = seen[1]

\* whether a run with these criteria halts, and how, read off the loaded table
ExpectedHalt(t, sel, s, e) ==
  IF IsEmpty(t) THEN "load"
  ELSE IF s > e THEN "InvalidDateRange"
  ELSE IF Matching(t.rows, sel, s, e) = <<>> THEN "EmptyResult"
  ELSE "none"

\* C10: over any sequence of runs the file is read once; a finished run halts as its
\* own criteria and the loaded table say, and renders all nine views when they say
\* none; a run with the criteria of a remembered earlier run has its outcome.
C10_RunsIndependent ==
  /\ loads <= 1
  /\ pc \in {"done", "stopped"} =>
       /\ halt = ExpectedHalt(cache.value, selected_stations, start_date, end_date)
       /\ (pc = "done") = (halt = "none")
       /\ pc = "done" => Len(seen) = 9
       /\ (memo.set /\ memo.stations = selected_stations /\ memo.from = start_date
             /\ memo.to = end_date) => memo.outcome = Outcome

\* a run after a remembered error run, and with criteria again valid, renders all
C10_Witness ==
  /\ pc = "done"
  /\ loads = 1
  /\ memo.set
  /\ memo.outcome.halt = "InvalidDateRange"
  /\ Len(seen) = 9

====
